---- MODULE Spec2Model ----
(***************************************************************************)
(* A model of aws_ollama's build_stack command: one run of main()          *)
(* (src/cli/build_stack.py) and of the stack helpers it calls              *)
(* (src/cli/utils/stack.py).  The cloud provider and the local file system *)
(* are the environment: every answer the code distinguishes (a result, a   *)
(* ClientError it catches, an error it re-raises) is a nondeterministic    *)
(* choice.                                                                 *)
(***************************************************************************)
EXTENDS Integers, Sequences, FiniteSets, TLC

VARIABLES
    pc,                     \* position of main()
    err,                    \* exception that ended the run, "" if none
    args,                   \* argparse namespace (the fields the run reads)
    environ,                \* os.environ (the fields the run reads)
    now,                    \* datetime.now() of this run
    aws_access_key_id,      \* main: resolved access key
    aws_secret_access_key,  \* main: resolved secret key
    session,                \* TRUE once init_session built the session
    keypair_name,           \* main: name asked of create_keypair
    private_key,            \* create_keypair: response['KeyMaterial']
    key_file,               \* the file at <save_path>/<name>.pem
    file_written,           \* TRUE once the run opened the key file for writing
    created_keypair,        \* what create_keypair returned
    deployed,               \* provider: is the named stack deployed
    provider_outputs,       \* provider: the stack's Outputs list
    describe_answer,        \* provider's answer to the existence check
    stack_exists,           \* result of does_stack_exist
    submitted,              \* the mutating request and the provider's answer
    stack_id,               \* deploy_cloudformation_stack's return value
    stack_status,           \* status returned by the last polling query
    outputs_reply,          \* provider's answer to get_stack_outputs
    stack_outputs,          \* main: what deploy_stack returned
    printed,                \* main: the lines printed after deploy_stack
    calls                   \* provider API calls made so far, per operation

vars == <<pc, err, args, environ, now, aws_access_key_id, aws_secret_access_key,
          session, keypair_name, private_key, key_file, file_written,
          created_keypair, deployed, provider_outputs, describe_answer, stack_exists,
          submitted,
          stack_id, stack_status, outputs_reply, stack_outputs, printed, calls>>

-----------------------------------------------------------------------------
(* Bounds of the model *)

\* The polling loop is unbounded; its query counter saturates here.
MaxPolls == 2

-----------------------------------------------------------------------------
(* Python values *)

\* None, for the optional strings of the run
None == "<None>"

\* truth value of an optional string: None and "" are false
Truthy(s) == s # None /\ s # ""

\* variant of PyOr: the second operand wins (environment before flag)
PyOrSecondFirst(a, b) == IF Truthy(b) THEN b ELSE a

\* Python's `a or b` on optional strings
PyOr(a, b) == IF Truthy(a) THEN a ELSE b

\* deploy_stack's result: None or a dict
NoOutputs == [isNone |-> TRUE]
OutputDict(d) == [isNone |-> FALSE, dict |-> d]

\* truth value of deploy_stack's result: None and {} are false
TruthyOutputs(o) == ~o.isNone /\ DOMAIN o.dict # {}

\* dict.get(key): the value, or None
DictGet(d, key) == IF key \in DOMAIN d THEN d[key] ELSE None

\* d[key] = value on a dict
DictSet(d, key, value) == [k \in DOMAIN d \cup {key} |-> IF k = key THEN value ELSE d[k]]

-----------------------------------------------------------------------------
(* Inputs *)

AccessKeyFlags == {None, "", "AKIAFLAG"}
AccessKeyEnvs == {None, "AKIAENV"}
SecretKeyFlags == {None, "secret-flag"}
SecretKeyEnvs == {None, "secret-env"}
KeypairNameFlags == {None, "foo"}
StackNames == {"demo"}
HostedZoneNames == {"example.com"}
SavePaths == {"."}
Clocks == {[year |-> 2024, month |-> 5, day |-> 1, hour |-> 14]}
KeyMaterials == {"PEM-A", "PEM-B"}
StackIds == {"arn:stack/demo/1"}

\* 0o400: read-only for the owner
ModeOwnerRead == 256

\* the key file before the run: absent, or left by an earlier run (0o644, 0o400)
NoFile == [exists |-> FALSE]
File(content, mode) == [exists |-> TRUE, content |-> content, mode |-> mode]
InitialKeyFiles == {NoFile, File("OLD-PEM", 420), File("OLD-PEM", 256)}

\* modes a file created by open(path, 'w') gets (0o666 masked by the umask):
\* 0o644, 0o600
CreateModes == {420, 384}

\* owner-write bit of a mode
OwnerWritable(mode) == (mode \div 128) % 2 = 1

\* Outputs lists of the provider: (OutputKey, OutputValue) pairs, keys distinct
Out(k, v) == [OutputKey |-> k, OutputValue |-> v]
OutputLists ==
    { <<>>,
      <<Out("PublicIP", "203.0.113.7")>>,
      <<Out("InstanceId", "i-0abc")>>,
      <<Out("InstanceId", "i-0abc"), Out("PublicIP", "203.0.113.7")>>,
      <<Out("PublicIP", "")>> }

\* Stack statuses, as the words between the underscores of the provider's label
S_CREATE_IN_PROGRESS == <<"CREATE", "IN", "PROGRESS">>
S_CREATE_COMPLETE == <<"CREATE", "COMPLETE">>
S_CREATE_FAILED == <<"CREATE", "FAILED">>
S_ROLLBACK_IN_PROGRESS == <<"ROLLBACK", "IN", "PROGRESS">>
S_ROLLBACK_COMPLETE == <<"ROLLBACK", "COMPLETE">>
S_ROLLBACK_FAILED == <<"ROLLBACK", "FAILED">>
S_UPDATE_IN_PROGRESS == <<"UPDATE", "IN", "PROGRESS">>
S_UPDATE_COMPLETE_CLEANUP == <<"UPDATE", "COMPLETE", "CLEANUP", "IN", "PROGRESS">>
S_UPDATE_COMPLETE == <<"UPDATE", "COMPLETE">>
S_UPDATE_ROLLBACK_FAILED == <<"UPDATE", "ROLLBACK", "FAILED">>
S_UPDATE_ROLLBACK_COMPLETE == <<"UPDATE", "ROLLBACK", "COMPLETE">>
S_DELETE_COMPLETE == <<"DELETE", "COMPLETE">>
NoStatus == <<>>

\* statuses the provider can report for a stack after each kind of request
StatusesAfter(request) ==
    IF request = "create_stack"
    THEN {S_CREATE_IN_PROGRESS, S_CREATE_COMPLETE, S_CREATE_FAILED,
          S_ROLLBACK_IN_PROGRESS, S_ROLLBACK_COMPLETE, S_ROLLBACK_FAILED,
          S_DELETE_COMPLETE}
    ELSE {S_UPDATE_IN_PROGRESS, S_UPDATE_COMPLETE_CLEANUP, S_UPDATE_COMPLETE,
          S_UPDATE_ROLLBACK_FAILED, S_UPDATE_ROLLBACK_COMPLETE, S_DELETE_COMPLETE}

Operations == {"create_key_pair", "describe_stacks_exists", "create_stack",
               "update_stack", "describe_stacks_status", "describe_stacks_outputs"}

\* one more call of operation op; the polling query's count saturates
Called(op) ==
    [calls EXCEPT ![op] = IF op = "describe_stacks_status" /\ @ >= MaxPolls THEN @ ELSE @ + 1]

-----------------------------------------------------------------------------
(* Pure functions of the program *)

\* two-digit field of strftime
Pad2(n) == IF n < 10 THEN "0" \o ToString(n) ELSE ToString(n)

\* datetime.strftime('%Y%m%d%H')
Strftime(clock) ==
    ToString(clock.year) \o Pad2(clock.month) \o Pad2(clock.day) \o Pad2(clock.hour)

generate_keypair_name(stack_name, clock) ==
    stack_name \o "-" \o Strftime(clock) \o "-keypair"

\* create_keypair: key_file_path
KeyFilePath(save_path, name) == save_path \o "/" \o name \o ".pem"

\* main: the credential test before any work
CredentialsMissing(access, secret) == ~(Truthy(access) /\ Truthy(secret))

\* variant of Chmod: the mode is left as it was
ChmodSkipped(file, mode) == file

\* os.chmod
Chmod(file, mode) == [file EXCEPT !.mode = mode]

\* variant of does_stack_exist: every error is taken for "no such stack"
does_stack_exist_swallow(answer) == IF answer = "ok" THEN "yes" ELSE "no"

\* does_stack_exist: "yes", "no", or "raise" when the error is re-raised
does_stack_exist(answer) ==
    IF answer = "ok" THEN "yes"
    ELSE IF answer = "ValidationError" THEN "no"
    ELSE "raise"

\* variant of RequestFor: the two branches exchanged
RequestForSwapped(exists) == IF exists = "yes" THEN "create_stack" ELSE "update_stack"

\* deploy_cloudformation_stack: the request the existence check selects
RequestFor(exists) == IF exists = "yes" THEN "update_stack" ELSE "create_stack"

\* variant of StackIdFor: an id is returned whatever the provider answered
StackIdForAlways(answer, id) == id

\* deploy_cloudformation_stack: the stack id returned for the provider's answer
StackIdFor(answer, id) == IF answer = "accepted" THEN id ELSE None

\* wait_for_stack_completion: the two tests of the loop
IsSuccessStatus(status) == status \in {S_CREATE_COMPLETE, S_UPDATE_COMPLETE}

\* variant of IsFailureStatus: the rollback-complete labels are left out
IsFailureStatusFailedOnly(status) == \E i \in 1..Len(status) : status[i] = "FAILED"

IsFailureStatus(status) ==
    \/ \E i \in 1..Len(status) : status[i] = "FAILED"
    \/ status \in {S_ROLLBACK_COMPLETE, S_UPDATE_ROLLBACK_COMPLETE}

\* get_stack_outputs: the dict built from the Outputs list, in list order
EmptyDict == [k \in {} |-> ""]

\* variant of OutputsToDict: only the last output is kept
OutputsToDictLastOnly(outputs) ==
    IF outputs = <<>> THEN EmptyDict
    ELSE [k \in {outputs[Len(outputs)].OutputKey} |-> outputs[Len(outputs)].OutputValue]

RECURSIVE OutputsToDict(_)
OutputsToDict(outputs) ==
    IF outputs = <<>> THEN EmptyDict
    ELSE LET n == Len(outputs)
         IN  DictSet(OutputsToDict(SubSeq(outputs, 1, n - 1)),
                     outputs[n].OutputKey, outputs[n].OutputValue)

\* variant of ShouldPrint: the PublicIP key is tested, not its value
ShouldPrintKeyOnly(outputs) == ~outputs.isNone /\ "PublicIP" \in DOMAIN outputs.dict

\* main: the test guarding the two final prints
ShouldPrint(outputs) ==
    TruthyOutputs(outputs) /\ Truthy(DictGet(outputs.dict, "PublicIP"))

SshCommand(path, ip) == "SSH command: ssh -i " \o path \o " ubuntu@" \o ip
WebAddress(stack_name, zone) == "Web address: https://" \o stack_name \o "." \o zone

-----------------------------------------------------------------------------
(* Answers of the environment *)

\* describe_stacks by name: found, not found (ValidationError), or another error
DescribeAnswers(isDeployed) ==
    (IF isDeployed THEN {"ok"} ELSE {"ValidationError"}) \cup {"AccessDenied"}

\* update_stack / create_stack: accepted, or rejected with a ClientError
SubmitAnswers(request) ==
    IF request = "update_stack"
    THEN {"accepted", "NoUpdates", "ClientError"}
    ELSE {"accepted", "ClientError"}

NoKeypair == [name |-> None, path |-> None]
NotSubmitted == [request |-> None, answer |-> None]

-----------------------------------------------------------------------------
(* The run *)

Init ==
    /\ pc = "credentials"
    /\ err = ""
    /\ args \in [access_key : AccessKeyFlags, secret_key : SecretKeyFlags,
                 keypair_name : KeypairNameFlags, stack_name : StackNames,
                 hosted_zone_name : HostedZoneNames, keypair_save_path : SavePaths]
    /\ environ \in [AWS_ACCESS_KEY_ID : AccessKeyEnvs,
                    AWS_SECRET_ACCESS_KEY : SecretKeyEnvs]
    /\ now \in Clocks
    /\ aws_access_key_id = None
    /\ aws_secret_access_key = None
    /\ session = FALSE
    /\ keypair_name = None
    /\ private_key = None
    /\ key_file \in InitialKeyFiles
    /\ file_written = FALSE
    /\ created_keypair = NoKeypair
    /\ deployed \in BOOLEAN
    /\ provider_outputs \in OutputLists
    /\ describe_answer = None
    /\ stack_exists = "unchecked"
    /\ submitted = NotSubmitted
    /\ stack_id = None
    /\ stack_status = NoStatus
    /\ outputs_reply = None
    /\ stack_outputs = NoOutputs
    /\ printed = <<>>
    /\ calls = [op \in Operations |-> 0]

\* main, lines 128-134: credentials resolved, none usable
MissingCredentials ==
    /\ pc = "credentials"
    /\ aws_access_key_id' = PyOr(args.access_key, environ.AWS_ACCESS_KEY_ID)
    /\ aws_secret_access_key' = PyOr(args.secret_key, environ.AWS_SECRET_ACCESS_KEY)
    /\ CredentialsMissing(aws_access_key_id', aws_secret_access_key')
    /\ pc' = "raised"
    /\ err' = "ValueError"
    /\ UNCHANGED <<args, environ, now, session, keypair_name, private_key, key_file,
                   file_written, created_keypair, deployed, provider_outputs,
                   describe_answer, stack_exists, submitted, stack_id, stack_status,
                   outputs_reply, stack_outputs, printed, calls>>

\* main, lines 128-140: credentials resolved, session built, key pair named
InitSession ==
    /\ pc = "credentials"
    /\ aws_access_key_id' = PyOr(args.access_key, environ.AWS_ACCESS_KEY_ID)
    /\ aws_secret_access_key' = PyOr(args.secret_key, environ.AWS_SECRET_ACCESS_KEY)
    /\ ~CredentialsMissing(aws_access_key_id', aws_secret_access_key')
    /\ session' = TRUE
    /\ keypair_name' = PyOr(args.keypair_name, generate_keypair_name(args.stack_name, now))
    /\ pc' = "create_key_pair"
    /\ UNCHANGED <<err, args, environ, now, private_key, key_file, file_written,
                   created_keypair, deployed, provider_outputs, describe_answer,
                   stack_exists, submitted, stack_id, stack_status, outputs_reply,
                   stack_outputs, printed, calls>>

\* create_keypair, lines 72-73: the provider returns the key material
CreateKeyPairOk ==
    /\ pc = "create_key_pair"
    /\ \E material \in KeyMaterials : private_key' = material
    /\ calls' = Called("create_key_pair")
    /\ pc' = "write_key"
    /\ UNCHANGED <<err, args, environ, now, aws_access_key_id, aws_secret_access_key,
                   session, keypair_name, key_file, file_written, created_keypair,
                   deployed, provider_outputs, describe_answer, stack_exists, submitted,
                   stack_id, stack_status, outputs_reply, stack_outputs, printed>>

\* variant of CreateKeyPairRejected: the failure is ignored and the run goes on
CreateKeyPairRejectedIgnored ==
    /\ pc = "create_key_pair"
    /\ calls' = Called("create_key_pair")
    /\ pc' = "exists"
    /\ UNCHANGED <<err, args, environ, now, aws_access_key_id, aws_secret_access_key,
                   session, keypair_name, private_key, key_file, file_written,
                   created_keypair, deployed, provider_outputs, describe_answer,
                   stack_exists, submitted, stack_id, stack_status, outputs_reply,
                   stack_outputs, printed>>

\* create_keypair, lines 85-87: the provider rejects the request and None is
\* returned; main, line 143: unpacking None raises TypeError
CreateKeyPairRejected ==
    /\ pc = "create_key_pair"
    /\ calls' = Called("create_key_pair")
    /\ pc' = "raised"
    /\ err' = "TypeError"
    /\ UNCHANGED <<args, environ, now, aws_access_key_id, aws_secret_access_key,
                   session, keypair_name, private_key, key_file, file_written,
                   created_keypair, deployed, provider_outputs, describe_answer,
                   stack_exists, submitted, stack_id, stack_status, outputs_reply,
                   stack_outputs, printed>>

\* create_keypair, lines 76-78: the key material written to the file, which is
\* created with the umask's mode or truncated keeping its mode
WriteKeyFile ==
    /\ pc = "write_key"
    /\ \E mode \in CreateModes :
          key_file' = File(private_key, IF key_file.exists THEN key_file.mode ELSE mode)
    /\ file_written' = TRUE
    /\ pc' = "chmod_key"
    /\ UNCHANGED <<err, args, environ, now, aws_access_key_id, aws_secret_access_key,
                   session, keypair_name, private_key, created_keypair, deployed,
                   provider_outputs, describe_answer, stack_exists, submitted, stack_id,
                   stack_status, outputs_reply, stack_outputs, printed, calls>>

\* create_keypair, line 77: open() refused on a file the owner cannot write;
\* the PermissionError is not a ClientError and leaves main
WriteKeyFileDenied ==
    /\ pc = "write_key"
    /\ key_file.exists
    /\ ~OwnerWritable(key_file.mode)
    /\ pc' = "raised"
    /\ err' = "PermissionError"
    /\ UNCHANGED <<args, environ, now, aws_access_key_id, aws_secret_access_key,
                   session, keypair_name, private_key, key_file, file_written,
                   created_keypair, deployed, provider_outputs, describe_answer,
                   stack_exists, submitted, stack_id, stack_status, outputs_reply,
                   stack_outputs, printed, calls>>

\* create_keypair, lines 81-84, and main, lines 143-145
ChmodKeyFile ==
    /\ pc = "chmod_key"
    /\ key_file' = Chmod(key_file, ModeOwnerRead)
    /\ created_keypair' = [name |-> keypair_name,
                           path |-> KeyFilePath(args.keypair_save_path, keypair_name)]
    /\ IF Truthy(created_keypair'.name)
       THEN pc' = "exists" /\ err' = err
       ELSE pc' = "raised" /\ err' = "RuntimeError"
    /\ UNCHANGED <<args, environ, now, aws_access_key_id, aws_secret_access_key,
                   session, keypair_name, private_key, file_written, deployed,
                   provider_outputs, describe_answer, stack_exists, submitted, stack_id,
                   stack_status, outputs_reply, stack_outputs, printed, calls>>

\* does_stack_exist, lines 110-116, as called at line 50
CheckStackExists ==
    /\ pc = "exists"
    /\ \E answer \in DescribeAnswers(deployed) :
          /\ describe_answer' = answer
          /\ IF does_stack_exist(answer) = "raise"
             THEN pc' = "raised" /\ err' = "ClientError" /\ stack_exists' = stack_exists
             ELSE pc' = "submit" /\ err' = err /\ stack_exists' = does_stack_exist(answer)
    /\ calls' = Called("describe_stacks_exists")
    /\ UNCHANGED <<args, environ, now, aws_access_key_id, aws_secret_access_key,
                   session, keypair_name, private_key, key_file, file_written,
                   created_keypair, deployed, provider_outputs, submitted, stack_id,
                   stack_status, outputs_reply, stack_outputs, printed>>

\* deploy_cloudformation_stack, lines 50-78, and deploy_stack, lines 167-171:
\* the one mutating request; a stack id leads to the polling loop, None to
\* deploy_stack's `return None`
DeployCloudformationStack ==
    /\ pc = "submit"
    /\ \E answer \in SubmitAnswers(RequestFor(stack_exists)), id \in StackIds :
          /\ submitted' = [request |-> RequestFor(stack_exists), answer |-> answer]
          /\ stack_id' = StackIdFor(answer, id)
          /\ deployed' = (deployed \/ answer = "accepted")
    /\ calls' = Called(RequestFor(stack_exists))
    /\ IF Truthy(stack_id')
       THEN pc' = "poll" /\ stack_outputs' = stack_outputs
       ELSE pc' = "print" /\ stack_outputs' = NoOutputs
    /\ UNCHANGED <<err, args, environ, now, aws_access_key_id, aws_secret_access_key,
                   session, keypair_name, private_key, key_file, file_written,
                   created_keypair, provider_outputs, describe_answer, stack_exists,
                   stack_status, outputs_reply, printed>>

\* wait_for_stack_completion, lines 87-99: one turn of the loop.  The query is
\* answered with a status (the loop has no except clause); a turn that reads
\* no success or failure label sleeps and comes back to the query.
PollStatus ==
    /\ pc = "poll"
    /\ \E status \in StatusesAfter(submitted.request) : stack_status' = status
    /\ calls' = Called("describe_stacks_status")
    /\ pc' = IF IsSuccessStatus(stack_status') \/ IsFailureStatus(stack_status')
             THEN "outputs"
             ELSE "poll"
    /\ UNCHANGED <<err, args, environ, now, aws_access_key_id, aws_secret_access_key,
                   session, keypair_name, private_key, key_file, file_written,
                   created_keypair, deployed, provider_outputs, describe_answer,
                   stack_exists, submitted, stack_id, outputs_reply, stack_outputs,
                   printed>>

\* get_stack_outputs, lines 127-138, as called at line 170
GetStackOutputs ==
    /\ pc = "outputs"
    /\ \E answer \in {"ok", "ClientError"} :
          /\ outputs_reply' = answer
          /\ stack_outputs' = IF answer = "ok"
                              THEN OutputDict(OutputsToDict(provider_outputs))
                              ELSE NoOutputs
    /\ calls' = Called("describe_stacks_outputs")
    /\ pc' = "print"
    /\ UNCHANGED <<err, args, environ, now, aws_access_key_id, aws_secret_access_key,
                   session, keypair_name, private_key, key_file, file_written,
                   created_keypair, deployed, provider_outputs, describe_answer,
                   stack_exists, submitted, stack_id, stack_status, printed>>

\* main, lines 168-173
PrintAccess ==
    /\ pc = "print"
    /\ printed' = IF ShouldPrint(stack_outputs)
                  THEN <<SshCommand(created_keypair.path, DictGet(stack_outputs.dict, "PublicIP")),
                         WebAddress(args.stack_name, args.hosted_zone_name)>>
                  ELSE <<>>
    /\ pc' = "done"
    /\ UNCHANGED <<err, args, environ, now, aws_access_key_id, aws_secret_access_key,
                   session, keypair_name, private_key, key_file, file_written,
                   created_keypair, deployed, provider_outputs, describe_answer,
                   stack_exists, submitted, stack_id, stack_status, outputs_reply,
                   stack_outputs, calls>>

Next ==
    \/ MissingCredentials
    \/ InitSession
    \/ CreateKeyPairOk
    \/ CreateKeyPairRejected
    \/ WriteKeyFile
    \/ WriteKeyFileDenied
    \/ ChmodKeyFile
    \/ CheckStackExists
    \/ DeployCloudformationStack
    \/ PollStatus
    \/ GetStackOutputs
    \/ PrintAccess

Spec == Init /\ [][Next]_vars

-----------------------------------------------------------------------------
(* Fairness: the process runs its next statement, and the provider eventually *)
(* answers a polling query with one of the labels the loop stops on.          *)

SuccessLabels == {S_CREATE_COMPLETE, S_UPDATE_COMPLETE}
FailureLabels == {S_CREATE_FAILED, S_ROLLBACK_FAILED, S_UPDATE_ROLLBACK_FAILED,
                  S_ROLLBACK_COMPLETE, S_UPDATE_ROLLBACK_COMPLETE}
TerminalLabels == SuccessLabels \cup FailureLabels

ProviderReportsLabel == PollStatus /\ stack_status' \in TerminalLabels

LiveSpec == Spec /\ WF_vars(Next) /\ WF_vars(ProviderReportsLabel)

-----------------------------------------------------------------------------
(* Properties *)

StackOperations == Operations \ {"create_key_pair"}
StackCalls == {op \in StackOperations : calls[op] > 0}
Accepted == submitted.answer = "accepted"
Rejected == submitted.answer \in {"NoUpdates", "ClientError"}
DeployReturned == pc \in {"print", "done"}
KeyPairRejected == calls["create_key_pair"] = 1 /\ private_key = None

\* the dict holds exactly the pairs of the list
SamePairs(dict, list) ==
    /\ DOMAIN dict = {list[i].OutputKey : i \in 1..Len(list)}
    /\ \A i \in 1..Len(list) : dict[list[i].OutputKey] = list[i].OutputValue

\* C1: once a request was accepted and the polling loop stopped on a
\* failure-class status, deploy_stack returns None and the outputs are not
\* fetched.
C1_FailureReturnsNone ==
    (DeployReturned /\ Accepted /\ stack_status \in FailureLabels)
        => (stack_outputs = NoOutputs /\ calls["describe_stacks_outputs"] = 0)

\* C2, as stated: the loop is left at the first success status, and
\* deploy_stack then returns a dict holding exactly the provider's outputs.
C2_SuccessReturnsProviderOutputs ==
    /\ pc = "poll" => stack_status \notin SuccessLabels
    /\ (DeployReturned /\ Accepted /\ stack_status \in SuccessLabels)
          => (~stack_outputs.isNone /\ SamePairs(stack_outputs.dict, provider_outputs))

\* C2, amended: the loop is left at the first success status; deploy_stack then
\* returns a dict holding exactly the provider's outputs when the outputs
\* query is answered, and None when that query is rejected with a ClientError.
C2_SuccessReturnsOutputsOrNone ==
    /\ pc = "poll" => stack_status \notin SuccessLabels
    /\ (DeployReturned /\ Accepted /\ stack_status \in SuccessLabels)
          => /\ outputs_reply \in {"ok", "ClientError"}
             /\ outputs_reply = "ok" =>
                   (~stack_outputs.isNone /\ SamePairs(stack_outputs.dict, provider_outputs))
             /\ outputs_reply = "ClientError" => stack_outputs = NoOutputs

C2_Witness ==
    /\ pc = "done" /\ Accepted /\ stack_status \in SuccessLabels
    /\ calls["describe_stacks_status"] >= 2
    /\ outputs_reply = "ok" /\ Len(provider_outputs) = 2

\* C3: at most one mutating request is submitted in a run; it is create_stack
\* when the existence check found no stack and update_stack when it found one,
\* and it is not repeated while the status queries are.
C3_OneMutatingRequest ==
    /\ calls["create_stack"] + calls["update_stack"] <= 1
    /\ stack_exists = "unchecked" => calls["create_stack"] + calls["update_stack"] = 0
    /\ describe_answer = "ValidationError" => calls["update_stack"] = 0
    /\ describe_answer = "ok" => calls["create_stack"] = 0
    /\ (pc \in {"poll", "outputs", "print", "done"} /\ describe_answer = "ValidationError")
          => (calls["create_stack"] = 1 /\ submitted.request = "create_stack")
    /\ (pc \in {"poll", "outputs", "print", "done"} /\ describe_answer = "ok")
          => (calls["update_stack"] = 1 /\ submitted.request = "update_stack")

C3_Witness ==
    /\ pc = "poll" /\ calls["describe_stacks_status"] >= 2
    /\ describe_answer = "ok" /\ calls["update_stack"] = 1

\* C4: after a rejected create_stack or update_stack (the "No updates are to
\* be performed" rejection included) deploy_stack returns None: no status
\* query, no outputs query, no exception.
C4_RejectedSubmissionReturnsNone ==
    Rejected => /\ DeployReturned
                /\ err = ""
                /\ stack_outputs = NoOutputs
                /\ stack_id = None
                /\ calls["describe_stacks_status"] = 0
                /\ calls["describe_stacks_outputs"] = 0

C4_Witness == pc = "done" /\ submitted = [request |-> "update_stack", answer |-> "NoUpdates"]

\* C5: no stack request is made, and deploy_stack is not entered, unless
\* create_key_pair was called before and succeeded; a rejected create_key_pair
\* ends the run with a raised error.
C5_NoStackRequestWithoutKeyPair ==
    /\ (StackCalls # {} \/ pc \in {"exists", "submit", "poll", "outputs", "print", "done"})
          => (calls["create_key_pair"] = 1 /\ Truthy(private_key))
    /\ KeyPairRejected => (pc = "raised" /\ err # "" /\ StackCalls = {})

C5_Witness == KeyPairRejected /\ pc = "raised" /\ session

\* C6: each credential is the flag when the flag is given and the environment
\* variable otherwise; with both credentials absent the run ends in ValueError
\* with no session, no provider call and no key file written.
C6_CredentialsFailFast ==
    pc # "credentials" =>
        /\ aws_access_key_id =
              IF args.access_key \notin {None, ""}
              THEN args.access_key ELSE environ.AWS_ACCESS_KEY_ID
        /\ aws_secret_access_key =
              IF args.secret_key \notin {None, ""}
              THEN args.secret_key ELSE environ.AWS_SECRET_ACCESS_KEY
        /\ (aws_access_key_id \in {None, ""} /\ aws_secret_access_key \in {None, ""})
              => /\ pc = "raised" /\ err = "ValueError"
                 /\ ~session
                 /\ \A op \in Operations : calls[op] = 0
                 /\ ~file_written

C6_Witness ==
    /\ pc = "raised" /\ err = "ValueError"
    /\ args.access_key = "" /\ environ.AWS_ACCESS_KEY_ID = None
    /\ aws_access_key_id = None /\ aws_secret_access_key = None

\* C7: the existence check answers "no" exactly on a not-found (ValidationError)
\* answer and "yes" exactly on a successful describe; any other error leaves
\* the run as a raised ClientError with no create_stack or update_stack sent.
C7_ExistenceCheck ==
    /\ stack_exists = "no" <=> describe_answer = "ValidationError"
    /\ stack_exists = "yes" <=> describe_answer = "ok"
    /\ describe_answer \notin {None, "ok", "ValidationError"}
          => /\ pc = "raised" /\ err = "ClientError"
             /\ submitted = NotSubmitted
             /\ calls["create_stack"] = 0 /\ calls["update_stack"] = 0

C7_Witness == pc = "raised" /\ describe_answer = "AccessDenied"

HasPublicIP(o) ==
    /\ ~o.isNone
    /\ "PublicIP" \in DOMAIN o.dict
    /\ o.dict["PublicIP"] # ""

\* C8: the SSH command and the web address are printed exactly when
\* deploy_stack returned a dict with a non-empty PublicIP; in every other
\* case nothing is printed, and main ends without raising either way.
C8_PrintIffPublicIP ==
    /\ [](pc # "done" => printed = <<>>)
    /\ [](pc = "done" => /\ err = ""
                         /\ printed # <<>> <=> HasPublicIP(stack_outputs)
                         /\ printed # <<>> => Len(printed) = 2)
    /\ [][pc = "print" => (pc' = "done" /\ err' = "")]_vars

C8_Witness ==
    /\ pc = "done" /\ printed = <<>>
    /\ ~stack_outputs.isNone /\ DOMAIN stack_outputs.dict = {"InstanceId"}

\* C9: whenever create_keypair has returned its (name, path) pair, the file at
\* <save_path>/<name>.pem exists, holds exactly the key material the provider
\* returned and has mode 0o400.
C9_KeyFileOwnerReadOnly ==
    created_keypair # NoKeypair =>
        /\ created_keypair.name = keypair_name
        /\ created_keypair.path = args.keypair_save_path \o "/" \o created_keypair.name \o ".pem"
        /\ key_file.exists
        /\ key_file.content = private_key
        /\ private_key \in KeyMaterials
        /\ key_file.mode = 256

C9_Witness ==
    /\ created_keypair = [name |-> "demo-2024050114-keypair",
                          path |-> "./demo-2024050114-keypair.pem"]
    /\ key_file = File("PEM-B", 256)

====
